---- MODULE Spec2Model ----
(***************************************************************************)
(* Temporal aggregation engine of the activity dashboard (src/src/App.jsx):*)
(* BarGraph.processedData (bar chart buckets with trend) and               *)
(* HeatmapChart.processDataByGranularity (heatmap cells with dominant      *)
(* status and intensity), applied to the `data` and `granularity` props.   *)
(*                                                                         *)
(* Encoding of JavaScript values                                           *)
(*   date string 'YYYY-MM-DD[Thh:mm]'  [y, m, d, t], t = 0 for a date-only *)
(*                                     string, t = 1 for a later time of   *)
(*                                     that day; NoDate is `undefined`     *)
(*   Date object                       half-day timestamp 2*dayNumber + t, *)
(*                                     InvalidDate is `Invalid Date` (NaN) *)
(*   activityType                      string, NoType is `undefined`       *)
(*   number (trend, intensity)         exact rational [num, den]           *)
(*   a render that throws              [threw |-> TRUE, rows |-> <<>>]     *)
(* Events carry date, activityType and status; user and device take no     *)
(* part in the aggregation.                                                *)
(*                                                                         *)
(* The App component around the charts is modelled as well: its filters,   *)
(* stat cards, popovers and options, and the way of a cell click through   *)
(* two animation frames and useThrottle to the details modal.              *)
(***************************************************************************)
EXTENDS Integers, Sequences, FiniteSets, TLC

\* Longest enumerated data array.
MaxEvents == 3
\* Size of the larger buckets of the two bulk data arrays.
BigRun == 250
\* Latest reading of the clock, in ms after the mount of App.
MaxNow == 100
\* Most animation-frame callbacks pending at a time.
MaxFrames == 2
\* Most user actions of a session of SpecUI.
MaxActions == 3

Statuses == {"success", "warning", "fail"}

NoDate == [y |-> 0, m |-> 0, d |-> 0, t |-> 0]
NoType == ""
InvalidDate == -1

DateStr(y, m, d, t) == [y |-> y, m |-> m, d |-> d, t |-> t]

----------------------------------------------------------------------------
(* Calendar of 2024 and the date-fns functions the charts call.            *)

MonthLengths == <<31, 29, 31, 30, 31, 30, 31, 31, 30, 31, 30, 31>>

RECURSIVE SumLengths(_)
SumLengths(m) == IF m = 0 THEN 0 ELSE SumLengths(m - 1) + MonthLengths[m]

\* Days of the year before the first of month m.
DaysBefore == [m \in 1..12 |-> SumLengths(m - 1)]

DaysBeforeMonth(m) == DaysBefore[m]

\* Day of the year 2024 of a calendar date (1 = Monday 2024-01-01).
DayNumber(s) == DaysBeforeMonth(s.m) + s.d

MonthOfDay(n) == CHOOSE m \in 1..12 : DaysBeforeMonth(m) < n /\ n <= DaysBeforeMonth(m) + MonthLengths[m]

\* parseISO: a string to a Date; anything that is not a string gives Invalid Date.
parseISO(s) == IF s = NoDate THEN InvalidDate ELSE 2 * DayNumber(s) + s.t

IsValidDate(dt) == dt # InvalidDate

\* JavaScript's <= on two Dates: false when either is NaN.
DateLe(a, b) == IsValidDate(a) /\ IsValidDate(b) /\ a <= b

\* startOfWeek: 00:00 of the Sunday on or before the date (weekStartsOn 0).
startOfWeek(dt) == 2 * ((dt \div 2) - ((dt \div 2) % 7))

\* endOfWeek: 23:59:59.999 of the Saturday on or after the date.
endOfWeek(dt) == startOfWeek(dt) + 2 * 6 + 1

\* format(date, 'yyyy-MM-dd')
FormatDay(dt) ==
  LET n == dt \div 2
      m == MonthOfDay(n)
  IN DateStr(2024, m, n - DaysBeforeMonth(m), 0)

\* format(date, 'yyyy-MM'): the month key, a string ordered as (y, m).
FormatMonth(dt) == [y |-> 2024, m |-> MonthOfDay(dt \div 2)]

\* eachWeekOfInterval on a valid interval: the week starts from the week of
\* `start` to the week of `end`, one week apart.
WeekStarts(start, end) ==
  LET first == startOfWeek(start)
      n == ((startOfWeek(end) - first) \div 14) + 1
  IN [i \in 1..n |-> first + 14 * (i - 1)]

\* The same sequence latest week first.
Reversed(seq) == [i \in 1..Len(seq) |-> seq[Len(seq) + 1 - i]]

\* eachWeekOfInterval: on an interval with an Invalid Date, date-fns 2 throws
\* RangeError('Invalid interval') and date-fns 3 and later return []; on a
\* start after the end, date-fns 2 throws and date-fns 3 and later return
\* the weeks in reverse. The package version is not fixed by the source, so
\* both are outcomes.
eachWeekOfInterval(start, end) ==
  IF ~(IsValidDate(start) /\ IsValidDate(end))
  THEN {[threw |-> TRUE, rows |-> <<>>], [threw |-> FALSE, rows |-> <<>>]}
  ELSE IF start <= end
  THEN {[threw |-> FALSE, rows |-> WeekStarts(start, end)]}
  ELSE {[threw |-> TRUE, rows |-> <<>>], [threw |-> FALSE, rows |-> Reversed(WeekStarts(end, start))]}

----------------------------------------------------------------------------
(* Array helpers.                                                          *)

\* The elements of S as a sequence in increasing key order (key injective).
RECURSIVE SortByKey(_, _)
SortByKey(S, key) ==
  IF S = {} THEN <<>>
  ELSE LET x == CHOOSE x \in S : \A z \in S : key[x] <= key[z]
       IN <<x>> \o SortByKey(S \ {x}, key)

\* Faulty variant: the dates are sorted latest first.
SortDates_descending(S) == SortByKey(S, [s \in S |-> 0 - (((s.y * 12 + s.m) * 31 + s.d) * 2 + s.t)])

\* Array.prototype.sort() on date strings: code-unit order, which for
\* 'YYYY-MM-DD[Thh:mm]' is (y, m, d, t) order; undefined sorts last.
DateStrKey(s) == IF s = NoDate THEN 100000000 ELSE ((s.y * 12 + s.m) * 31 + s.d) * 2 + s.t

SortDates(S) == SortByKey(S, [s \in S |-> DateStrKey(s)])

\* Math.max of a set of naturals and a floor.
MaxWith(S, floor) == CHOOSE x \in S \cup {floor} : \A z \in S \cup {floor} : z <= x

\* Math.round of the rational num/den (den > 0): floor(x + 1/2).
MathRound(num, den) == (2 * num + den) \div (2 * den)

\* The result of a render that completed, and of one that threw.
Returned(rows) == [threw |-> FALSE, rows |-> rows]

Threw == [threw |-> TRUE, rows |-> <<>>]

----------------------------------------------------------------------------
(* BarGraph.processedData                                                  *)

\* Faulty variant: the distinct dates in order of first appearance, unsorted.
BarDates_unsorted(data) ==
  LET dateSet == {data[i].date : i \in 1..Len(data)}
      FirstIndex(s) == CHOOSE i \in 1..Len(data) :
                         /\ data[i].date = s
                         /\ \A j \in 1..(i - 1) : data[j].date # s
  IN SortByKey(dateSet, [s \in dateSet |-> FirstIndex(s)])

\* const dates = Array.from(new Set(data.map(d => d.date))).sort()
BarDates(data) == SortDates({data[i].date : i \in 1..Len(data)})

NumWithStatus(evs, status) == Cardinality({i \in 1..Len(evs) : evs[i].status = status})

\* Faulty variant: warnings are counted in the total but not under 'warning'.
Tally_warningLost(period, evs) ==
  [period |-> period,
   total |-> Len(evs),
   success |-> NumWithStatus(evs, "success"),
   warning |-> 0,
   fail |-> NumWithStatus(evs, "fail")]

\* { period, total: 0, success: 0, warning: 0, fail: 0 } after total++ and
\* [item.status]++ for every event of evs.
Tally(period, evs) ==
  [period |-> period,
   total |-> Len(evs),
   success |-> NumWithStatus(evs, "success"),
   warning |-> NumWithStatus(evs, "warning"),
   fail |-> NumWithStatus(evs, "fail")]

\* trendDirection: trend > 0 ? 'up' : trend < 0 ? 'down' : 'stable', on the
\* trend before rounding.
TrendDirection(raw) == IF raw.num > 0 THEN "up" ELSE IF raw.num < 0 THEN "down" ELSE "stable"

\* { ...current, trend: Math.round(trend), trendDirection }
WithTrend(current, raw) ==
  [period |-> current.period,
   total |-> current.total,
   success |-> current.success,
   warning |-> current.warning,
   fail |-> current.fail,
   trend |-> MathRound(raw.num, raw.den),
   trendDirection |-> TrendDirection(raw)]

ZeroTrend == [num |-> 0, den |-> 1]

\* Monthly: previous ? ((current.total - previous.total) / previous.total) * 100 : 0
MonthlyTrend(index, currentTotal, previousTotal) ==
  IF index > 1
  THEN [num |-> 100 * (currentTotal - previousTotal), den |-> previousTotal]
  ELSE ZeroTrend

MonthKey(mk) == mk.y * 12 + mk.m

MonthlyBuckets(data) ==
  IF \E i \in 1..Len(data) : ~IsValidDate(parseISO(data[i].date))
  THEN Threw  \* format(Invalid Date) throws RangeError
  ELSE
    LET monthSet == {FormatMonth(parseISO(data[i].date)) : i \in 1..Len(data)}
        months == SortByKey(monthSet, [mk \in monthSet |-> MonthKey(mk)])
        InMonth(mk) == LET Test(e) == FormatMonth(parseISO(e.date)) = mk
                       IN SelectSeq(data, Test)
        row(k) ==
          LET current == Tally(months[k], InMonth(months[k]))
              previousTotal == IF k > 1 THEN Len(InMonth(months[k - 1])) ELSE 0
          IN WithTrend(current, MonthlyTrend(k, current.total, previousTotal))
    IN Returned([k \in 1..Len(months) |-> row(k)])

\* Faulty variant: the first bucket is compared with an empty predecessor.
DailyTrend_noFirstGuard(index, currentTotal, previousTotal) ==
  [num |-> 100 * (currentTotal - previousTotal), den |-> MaxWith({previousTotal}, 1)]

\* Daily: previous ? ((current.total - previous.total) / Math.max(previous.total, 1)) * 100 : 0
DailyTrend(index, currentTotal, previousTotal) ==
  IF index > 1
  THEN [num |-> 100 * (currentTotal - previousTotal), den |-> MaxWith({previousTotal}, 1)]
  ELSE ZeroTrend

DailyBuckets(data) ==
  LET dates == BarDates(data)
      OnDate(date) == LET Test(e) == e.date = date
                      IN SelectSeq(data, Test)
      \* dailyData[date] || { period: date, total: 0, ... }
      row(k) ==
        LET current == Tally(dates[k], OnDate(dates[k]))
            previousTotal == IF k > 1 THEN Len(OnDate(dates[k - 1])) ELSE 0
        IN WithTrend(current, DailyTrend(k, current.total, previousTotal))
  IN IF \E k \in 1..Len(dates) : ~IsValidDate(parseISO(dates[k]))
     THEN Threw  \* periodLabel: format(parseISO(undefined)) throws RangeError
     ELSE Returned([k \in 1..Len(dates) |-> row(k)])

\* Faulty variant: the week excludes its first instant (eventDate > weekStart).
InWeek_exclusiveStart(eventDate, week) ==
  /\ DateLe(startOfWeek(week), eventDate)
  /\ eventDate # startOfWeek(week)
  /\ DateLe(eventDate, endOfWeek(week))

\* eventDate >= weekStart && eventDate <= weekEnd
InWeek(eventDate, week) ==
  DateLe(startOfWeek(week), eventDate) /\ DateLe(eventDate, endOfWeek(week))

\* Weekly: prevWeekEvents.length > 0 ? ((total - prev) / prev) * 100 : 0
WeeklyTrend(index, currentTotal, previousTotal) ==
  IF index > 1 /\ previousTotal > 0
  THEN [num |-> 100 * (currentTotal - previousTotal), den |-> previousTotal]
  ELSE ZeroTrend

WeekEvents(data, week) ==
  LET Test(e) == InWeek(parseISO(e.date), week)
  IN SelectSeq(data, Test)

WeekRow(data, weeks, k) ==
  LET weekData == Tally(FormatDay(weeks[k]), WeekEvents(data, weeks[k]))
      previousTotal == IF k > 1 THEN Len(WeekEvents(data, weeks[k - 1])) ELSE 0
  IN WithTrend(weekData, WeeklyTrend(k, weekData.total, previousTotal))

\* parseISO(dates[0]) and parseISO(dates[dates.length - 1]); an index out of
\* range reads undefined.
FirstDate(dates) == parseISO(IF dates = <<>> THEN NoDate ELSE dates[1])

LastDate(dates) == parseISO(IF dates = <<>> THEN NoDate ELSE dates[Len(dates)])

WeeklyBuckets(data) ==
  LET dates == BarDates(data)
  IN {IF w.threw THEN Threw
      ELSE Returned([k \in 1..Len(w.rows) |-> WeekRow(data, w.rows, k)])
        : w \in eachWeekOfInterval(FirstDate(dates), LastDate(dates))}

\* Faulty variant: 'day' and 'month' are taken as 'daily' and 'monthly'.
BarGraph_processedData_aliases(data, granularity) ==
  IF granularity \in {"monthly", "month"} THEN {MonthlyBuckets(data)}
  ELSE IF granularity \in {"daily", "day"} THEN {DailyBuckets(data)}
  ELSE WeeklyBuckets(data)

\* The set of outcomes of the useMemo callback for the props (data, granularity).
BarGraph_processedData(data, granularity) ==
  IF granularity = "monthly" THEN {MonthlyBuckets(data)}
  ELSE IF granularity = "daily" THEN {DailyBuckets(data)}
  ELSE WeeklyBuckets(data)

\* yMax = height - margin.top - margin.bottom, for height={600} of the overview.
BarGraph_yMax == 600 - 40 - 80

Abs(x) == IF x < 0 THEN -x ELSE x

\* domain: [0, Math.max(...processedData.map(d => d.total), 1)]
BarGraph_yScaleDomain(rows) == <<0, MaxWith({rows[k].total : k \in 1..Len(rows)}, 1)>>

\* yScale(value) of scaleLinear({domain, range: [yMax, 0]}): the position
\* yMax + (value - d0) / (d1 - d0) * (0 - yMax), kept as a fraction.
BarGraph_yScale(rows, value) ==
  LET domain == BarGraph_yScaleDomain(rows)
  IN [num |-> BarGraph_yMax * (domain[2] - domain[1]) - (value - domain[1]) * BarGraph_yMax,
      den |-> domain[2] - domain[1]]

\* Faulty variant: the largest trend, not the largest absolute trend.
BarGraph_maxTrend_noAbs(rows) ==
  LET trends == {rows[k].trend : k \in 1..Len(rows)}
  IN IF trends = {} THEN "-Infinity"
     ELSE CHOOSE x \in trends : \A z \in trends : z <= x

\* Math.max(...processedData.map(d => Math.abs(d.trend))); -Infinity of no bucket.
BarGraph_maxTrend(rows) ==
  LET trends == {Abs(rows[k].trend) : k \in 1..Len(rows)}
  IN IF trends = {} THEN "-Infinity"
     ELSE CHOOSE x \in trends : \A z \in trends : z <= x

\* domain: [-maxTrend, maxTrend]
BarGraph_trendScaleDomain(rows) == <<-BarGraph_maxTrend(rows), BarGraph_maxTrend(rows)>>

----------------------------------------------------------------------------
(* HeatmapChart                                                            *)

\* Array.from(new Set(data.filter(d => d && d.activityType).map(d => d.activityType))):
\* the distinct activity types in order of first appearance.
HeatActivityTypes(data) ==
  LET typeSet == {data[i].activityType : i \in 1..Len(data)} \ {NoType}
      FirstIndex(a) == CHOOSE i \in 1..Len(data) :
                         /\ data[i].activityType = a
                         /\ \A j \in 1..(i - 1) : data[j].activityType # a
  IN SortByKey(typeSet, [a \in typeSet |-> FirstIndex(a)])

\* Array.from(new Set(data.filter(d => d && d.date).map(d => d.date))).sort()
HeatDates(data) == SortDates({data[i].date : i \in 1..Len(data)} \ {NoDate})

\* validDates.length > 0 ? eachWeekOfInterval({ start: firstDate, end: lastDate }) : []
HeatWeeks(dates) ==
  IF Len(dates) > 0
  THEN (CHOOSE w \in eachWeekOfInterval(FirstDate(dates), LastDate(dates)) : TRUE).rows
  ELSE <<>>

\* Faulty variant: the most frequent status wins, ties broken fail > warning > success.
DominantStatus_majority(evs) ==
  LET n(status) == NumWithStatus(evs, status)
  IN IF n("fail") >= n("warning") /\ n("fail") >= n("success") THEN "fail"
     ELSE IF n("warning") >= n("success") THEN "warning"
     ELSE "success"

\* statusCounts.fail ? 'fail' : statusCounts.warning ? 'warning' : 'success'
DominantStatus(evs) ==
  IF NumWithStatus(evs, "fail") > 0 THEN "fail"
  ELSE IF NumWithStatus(evs, "warning") > 0 THEN "warning"
  ELSE "success"

\* Faulty variant: the dominant status is computed for an empty cell too.
Cell_statusWhenEmpty(activityType, period, evs, maxCount) ==
  [activityType |-> activityType,
   period |-> period,
   status |-> DominantStatus(evs),
   events |-> evs,
   count |-> Len(evs),
   intensity |-> IF Len(evs) > 0 THEN [num |-> Len(evs), den |-> maxCount] ELSE ZeroTrend]

\* The cell object: status and intensity stay null and 0 unless the cell has
\* events; maxCount is the Math.max(..., 1) the branch divides by.
Cell(activityType, period, evs, maxCount) ==
  [activityType |-> activityType,
   period |-> period,
   status |-> IF Len(evs) > 0 THEN DominantStatus(evs) ELSE "null",
   events |-> evs,
   count |-> Len(evs),
   intensity |-> IF Len(evs) > 0 THEN [num |-> Len(evs), den |-> maxCount] ELSE ZeroTrend]

\* Array.prototype.flat() of an array of arrays.
RECURSIVE Flat(_)
Flat(nested) == IF nested = <<>> THEN <<>> ELSE Head(nested) \o Flat(Tail(nested))

DayEvents(data, date, activityType) ==
  LET Test(e) == e.date = date /\ e.activityType = activityType
  IN SelectSeq(data, Test)

\* Faulty variant: the denominator is the count of the first day only.
DailyMax_firstDayOnly(data, dates, activityType) ==
  MaxWith({Len(DayEvents(data, dates[1], activityType))}, 1)

\* Math.max(...dates.map(d => events of that day and type), 1)
DailyMax(data, dates, activityType) ==
  MaxWith({Len(DayEvents(data, dates[k], activityType)) : k \in 1..Len(dates)}, 1)

DailyCells(data) ==
  LET dates == HeatDates(data)
      types == HeatActivityTypes(data)
      CellOf(a, date) == Cell(a, date, DayEvents(data, date, a), DailyMax(data, dates, a))
  IN Returned(Flat([j \in 1..Len(types) |-> [k \in 1..Len(dates) |-> CellOf(types[j], dates[k])]]))

MonthEvents(data, month, activityType) ==
  LET Test(e) == FormatMonth(parseISO(e.date)) = month /\ e.activityType = activityType
  IN SelectSeq(data, Test)

\* Math.max(...months.map(m => events of that month and type), 1)
MonthlyMax(data, months, activityType) ==
  MaxWith({Len(MonthEvents(data, months[k], activityType)) : k \in 1..Len(months)}, 1)

\* Array.from(new Set(dates.map(date => format(parseISO(date), 'yyyy-MM'))))
\* The Set keeps the months in the order in which `dates` first yields them.
HeatMonths(dates) ==
  LET monthOf == [k \in 1..Len(dates) |-> FormatMonth(parseISO(dates[k]))]
      firsts == {k \in 1..Len(dates) : \A j \in 1..(k - 1) : monthOf[j] # monthOf[k]}
      index == SortByKey(firsts, [k \in firsts |-> k])
  IN [i \in 1..Len(index) |-> monthOf[index[i]]]

MonthlyCells(data) ==
  LET dates == HeatDates(data)
      months == HeatMonths(dates)
      types == HeatActivityTypes(data)
      CellOf(a, month) == Cell(a, month, MonthEvents(data, month, a), MonthlyMax(data, months, a))
  IN IF /\ Len(types) > 0
        /\ Len(months) > 0
        /\ \E i \in 1..Len(data) : ~IsValidDate(parseISO(data[i].date))
     THEN Threw  \* data.filter formats every event's date: format(Invalid Date) throws
     ELSE Returned(Flat([j \in 1..Len(types) |-> [k \in 1..Len(months) |-> CellOf(types[j], months[k])]]))

\* Faulty variant: the events of the Saturday are left out of the week.
TypeWeekEvents_saturdayLost(data, week, activityType) ==
  LET Test(e) == /\ e.activityType = activityType
                 /\ InWeek(parseISO(e.date), week)
                 /\ parseISO(e.date) < startOfWeek(week) + 2 * 6
  IN SelectSeq(data, Test)

TypeWeekEvents(data, week, activityType) ==
  LET Test(e) == e.activityType = activityType /\ InWeek(parseISO(e.date), week)
  IN SelectSeq(data, Test)

\* Faulty variant: the denominator is the largest weekly count of the first
\* activity type only.
WeeklyMax_firstTypeOnly(data, weeks, types) ==
  MaxWith({Len(TypeWeekEvents(data, weeks[k], types[1])) : k \in 1..Len(weeks)}, 1)

\* Math.max(...activityTypes.map(type => Math.max(...typeWeeks, 1)), 1)
WeeklyMax(data, weeks, types) ==
  MaxWith({MaxWith({Len(TypeWeekEvents(data, weeks[k], types[j])) : k \in 1..Len(weeks)}, 1)
             : j \in 1..Len(types)}, 1)

WeeklyCells(data) ==
  LET weeks == HeatWeeks(HeatDates(data))
      types == HeatActivityTypes(data)
      maxEvents == WeeklyMax(data, weeks, types)
      CellOf(a, week) == Cell(a, FormatDay(week), TypeWeekEvents(data, week, a), maxEvents)
  IN Returned(Flat([j \in 1..Len(types) |-> [k \in 1..Len(weeks) |-> CellOf(types[j], weeks[k])]]))

\* gridData: the value of processDataByGranularity() for the props.
HeatmapChart_gridData(data, granularity) ==
  IF granularity = "daily" THEN DailyCells(data)
  ELSE IF granularity = "monthly" THEN MonthlyCells(data)
  ELSE WeeklyCells(data)

----------------------------------------------------------------------------
(* App: statistics of the filtered events.                                 *)

statistics(filteredData) ==
  LET totalEvents == Len(filteredData)
      successEvents == NumWithStatus(filteredData, "success")
  IN [totalEvents |-> totalEvents,
      successEvents |-> successEvents,
      failedEvents |-> NumWithStatus(filteredData, "fail"),
      warningEvents |-> NumWithStatus(filteredData, "warning"),
      \* totalEvents > 0 ? ((successEvents / totalEvents) * 100).toFixed(1) : 0,
      \* kept in tenths of a percent
      successRate |-> IF totalEvents > 0
                      THEN MathRound(1000 * successEvents, totalEvents)
                      ELSE 0]

----------------------------------------------------------------------------
(* The event arrays the charts are given.                                  *)

SampleDates == {DateStr(2024, 1, 27, 0), DateStr(2024, 2, 4, 0), DateStr(2024, 2, 8, 0)}

SampleTypes == {"Login", "Payment"}

WellFormedEvents == [date : SampleDates, activityType : SampleTypes, status : Statuses]

\* An event without a date and an event without an activity type.
MalformedEvents ==
  {[date |-> NoDate, activityType |-> "Login", status |-> "success"],
   [date |-> DateStr(2024, 2, 4, 0), activityType |-> NoType, status |-> "fail"]}

Events == WellFormedEvents \cup MalformedEvents

EventRank(e) ==
  LET typeRank == IF e.activityType = "Login" THEN 1 ELSE IF e.activityType = "Payment" THEN 2 ELSE 0
      statusRank == IF e.status = "success" THEN 0 ELSE IF e.status = "warning" THEN 1 ELSE 2
  IN (DateStrKey(e.date) % 1000) * 100 + typeRank * 10 + statusRank

\* Arrays of at most MaxEvents events, one per multiset of events.
SmallData ==
  {s \in UNION {[1..n -> Events] : n \in 0..MaxEvents} :
     \A i \in 1..(Len(s) - 1) : EventRank(s[i]) <= EventRank(s[i + 1])}

Rep(e, n) == [i \in 1..n |-> e]

\* Arrays with BigRun events on one day and BigRun + 1 on a day of the next
\* month, the events of a day alike.
BulkData ==
  LET early == {e \in WellFormedEvents : e.date = DateStr(2024, 1, 27, 0)}
      late == {e \in WellFormedEvents : e.date = DateStr(2024, 2, 4, 0)}
  IN UNION {{Rep(e, BigRun) \o Rep(l, BigRun + 1), Rep(e, BigRun + 1) \o Rep(l, BigRun)}
              : e \in early, l \in late}

\* Arrays of at most MaxEvents events in every order of arrival; events may
\* share a date, and one has none.
ShuffleEvents ==
  {[date |-> DateStr(2024, 2, 4, 0), activityType |-> "Login", status |-> "success"],
   [date |-> DateStr(2024, 2, 4, 0), activityType |-> "Payment", status |-> "fail"],
   [date |-> DateStr(2024, 1, 27, 0), activityType |-> "Login", status |-> "fail"],
   [date |-> DateStr(2024, 2, 8, 0), activityType |-> "Payment", status |-> "warning"],
   [date |-> NoDate, activityType |-> "Login", status |-> "success"]}

ShuffledData == UNION {[1..n -> ShuffleEvents] : n \in 0..MaxEvents}

\* Arrays of at most MaxEvents events whose dates carry a time of day: two
\* instants of 2024-02-04 and one of 2024-02-08.
TimedEvents ==
  [date : {DateStr(2024, 2, 4, 0), DateStr(2024, 2, 4, 1), DateStr(2024, 2, 8, 0)},
   activityType : {"Login"},
   status : {"success", "fail"}]

TimedData == UNION {[1..n -> TimedEvents] : n \in 0..MaxEvents}

IsWellFormed(e) == e.date # NoDate /\ e.activityType # NoType

WellFormedData(evs) == \A i \in 1..Len(evs) : IsWellFormed(evs[i])

----------------------------------------------------------------------------
(* App: the filters, the events they let through and the memos of the      *)
(* charts. `data` is the filteredData memo, the data prop of both charts.  *)

\* The events of './data.json' in the runs of the whole application: three
\* events of two activity types, not in date order.
AppData ==
  {<<[date |-> DateStr(2024, 2, 4, 0), activityType |-> "Payment", status |-> s1],
     [date |-> DateStr(2024, 1, 27, 0), activityType |-> "Login", status |-> "success"],
     [date |-> DateStr(2024, 2, 8, 0), activityType |-> "Login", status |-> s3]>>
     : s1 \in {"warning", "fail"}, s3 \in {"success", "fail"}}

\* One of them, with an event of every status, for the sessions of SpecUI.
SessionData ==
  {d \in AppData : d[1].status = "warning" /\ d[3].status = "fail"}

\* The stat cards: onClick={() => handleStatCardClick('total')} and the like.
StatCards == {"total", "success", "failed", "warning"}

\* Array.prototype.includes
Includes(arr, x) == \E i \in 1..Len(arr) : arr[i] = x

\* prev.filter(a => a !== value)
Without(arr, value) == LET Keep(x) == x # value IN SelectSeq(arr, Keep)

\* prev.includes(x) ? prev.filter(a => a !== x) : [...prev, x]
Toggle(arr, x) == IF Includes(arr, x) THEN Without(arr, x) ELSE Append(arr, x)

\* Faulty variant: the 'failed' card is compared with the statuses as it is.
App_filteredData_failedNotMapped(dummy, types, statuses, card) ==
  LET Pass(item) ==
        /\ ~(Len(types) > 0 /\ ~Includes(types, item.activityType))
        /\ ~(Len(statuses) > 0 /\ ~Includes(statuses, item.status))
        /\ ~(card # "null" /\ card # "total" /\ item.status # card)
  IN IF Len(types) = 0 /\ Len(statuses) = 0 /\ card = "null"
     THEN dummy
     ELSE SelectSeq(dummy, Pass)

\* Faulty variant: the 'total' card is compared with the statuses like the others.
App_filteredData_totalIsAStatus(dummy, types, statuses, card) ==
  LET targetStatus == IF card = "failed" THEN "fail" ELSE card
      Pass(item) ==
        /\ ~(Len(types) > 0 /\ ~Includes(types, item.activityType))
        /\ ~(Len(statuses) > 0 /\ ~Includes(statuses, item.status))
        /\ ~(card # "null" /\ item.status # targetStatus)
  IN IF Len(types) = 0 /\ Len(statuses) = 0 /\ card = "null"
     THEN dummy
     ELSE SelectSeq(dummy, Pass)

\* The body of the filteredData memo; card is selectedStatCard, "null" for null.
App_filteredData(dummy, types, statuses, card) ==
  LET targetStatus == IF card = "failed" THEN "fail" ELSE card
      Pass(item) ==
        /\ ~(Len(types) > 0 /\ ~Includes(types, item.activityType))
        /\ ~(Len(statuses) > 0 /\ ~Includes(statuses, item.status))
        /\ ~(card # "null" /\ targetStatus # "total" /\ item.status # targetStatus)
  IN IF Len(types) = 0 /\ Len(statuses) = 0 /\ card = "null"
     THEN dummy
     ELSE SelectSeq(dummy, Pass)

\* const activityTypes = useMemo(() => Array.from(new Set(dummyData.map(d =>
\* d.activityType).filter(Boolean))), [dummyData])
App_activityTypes(dummy) == HeatActivityTypes(dummy)

\* Faulty variant: the bar chart's memo does not depend on the granularity.
BarGraphDeps_noGranularity(d, g) == <<d>>

\* The dependency arrays of the three memos. React compares them with
\* Object.is; a memo's body is a function of its dependencies, so comparing
\* the values gives the same memo contents.
FilteredDataDeps(types, statuses, card) == <<types, statuses, card>>

BarGraphDeps(d, g) == <<d, g>>

\* [data, granularity, activityTypes, dates]: activityTypes and dates are
\* themselves memos of [data], new arrays exactly when data is a new array.
GridDataDeps(d, g) == <<d, g>>

\* The installed date-fns: "v2", "v3" (3 or later), or "unknown" when a run
\* leaves it open and every call may behave as either.
DateFnsVersions == {"v2", "v3"}

\* Faulty variant: the outcome of a call does not follow the installed version.
OfVersion_anyOutcome(outcomes, version) == outcomes

\* The outcomes that the installed version of date-fns can produce: where the
\* versions differ, version 2 is the one that throws.
OfVersion(outcomes, version) ==
  IF version = "unknown" \/ Cardinality(outcomes) = 1
  THEN outcomes
  ELSE {o \in outcomes : o.threw = (version = "v2")}

VARIABLES dummyData, selectedActivityTypes, selectedStatuses, selectedStatCard,
          granularity, data, processedData, gridData, dateFns, viewMode

\* The other state of App: the tab, the two popovers, the search box of the
\* filter popover and the options of the customize popover.
VARIABLES activeTab, showFilters, showCustomize, searchTerm,
          timeRange, showGradient, showAccessibilityPatterns, showTrends

\* The details modal and the way to it: selectedCell (<<>> for null, <<cell>>
\* for a cell), the animation-frame callbacks requested and not yet run, the
\* clock Date.now() in ms since the mount, and lastRun.current of useThrottle.
VARIABLES selectedCell, frames, now, lastRun

\* History: the clicks that useThrottle forwarded to handleCellClick, each
\* with the time the user made it and the time it was forwarded; for every
\* setSelectedCell(cell) that ran, the time the user made its click; the
\* number of user actions so far.
VARIABLES forwarded, opened, actions

popovers == <<showFilters, showCustomize>>

options == <<timeRange, showGradient, showAccessibilityPatterns, showTrends>>

modal == <<selectedCell, frames, now, lastRun, forwarded, opened>>

vars == <<dummyData, selectedActivityTypes, selectedStatuses, selectedStatCard,
          granularity, data, processedData, gridData, dateFns, viewMode,
          activeTab, popovers, searchTerm, options, modal, actions>>

\* const [timeGranularityOptions] = useState(['hour', 'day', 'week', 'month', 'year'])
timeGranularityOptions == {"hour", "day", "week", "month", "year"}

\* The buttons of the customize popover.
customizeGranularities == {"hourly", "daily", "weekly", "monthly"}

\* const tabs = [{ id: 'overview', ... }, ...]
tabs == {"overview", "transaction", "association", "behaviour", "fcr", "sanction", "evidence"}

\* The options of the Time Period select.
timeRanges == {"last24hours", "last7days", "last30days", "last90days", "custom"}

\* What the user types into the search box.
SearchTerms == {"", "pay"}

\* The clock readings between two events, in ms.
Steps == {50}

\* useThrottle(handleCellClick, 50)
Delay == 50

\* A session without a budget of user actions.
Unlimited == MaxActions + 1

\* One more user action, while the budget of the session lasts.
UserAction ==
  /\ actions # MaxActions
  /\ actions' = IF actions = Unlimited THEN actions ELSE actions + 1

\* Both charts re-render with the props d and g: each memo keeps its value
\* when its dependencies are those of the previous render, and runs its body
\* otherwise.
Render(d, g) ==
  /\ processedData' \in IF BarGraphDeps(d, g) = BarGraphDeps(data, granularity)
                        THEN {processedData}
                        ELSE OfVersion(BarGraph_processedData(d, g), dateFns)
  /\ gridData' = IF GridDataDeps(d, g) = GridDataDeps(data, granularity)
                 THEN gridData
                 ELSE HeatmapChart_gridData(d, g)

\* A state update of App and the render that follows it: the filteredData
\* memo first, then the charts with data={filteredData}.
Recompute(types, statuses, card, g) ==
  /\ selectedActivityTypes' = types
  /\ selectedStatuses' = statuses
  /\ selectedStatCard' = card
  /\ granularity' = g
  /\ UNCHANGED <<dummyData, dateFns, viewMode, activeTab, popovers, modal>>
  /\ UserAction
  /\ data' = IF FilteredDataDeps(types, statuses, card)
                = FilteredDataDeps(selectedActivityTypes, selectedStatuses, selectedStatCard)
             THEN data
             ELSE App_filteredData(dummyData, types, statuses, card)
  /\ Render(data', g)

\* An update of the filters or of the granularity alone.
Update(types, statuses, card, g) ==
  /\ Recompute(types, statuses, card, g)
  /\ UNCHANGED <<searchTerm, options>>

\* The first render: no filter is selected and
\* const [granularity, setGranularity] = useState('weekly')
Mount(dataSets) ==
  /\ dummyData \in dataSets
  /\ viewMode = "heatmap"
  /\ activeTab = "overview"
  /\ showFilters = FALSE
  /\ showCustomize = FALSE
  /\ searchTerm = ""
  /\ timeRange = "last30days"
  /\ showGradient = TRUE
  /\ showAccessibilityPatterns = FALSE
  /\ showTrends = TRUE
  /\ selectedCell = <<>>
  /\ frames = <<>>
  /\ now = 0
  /\ lastRun = now  \* useRef(Date.now())
  /\ forwarded = <<>>
  /\ opened = <<>>
  /\ selectedActivityTypes = <<>>
  /\ selectedStatuses = <<>>
  /\ selectedStatCard = "null"
  /\ granularity = "weekly"
  /\ data = App_filteredData(dummyData, selectedActivityTypes, selectedStatuses, selectedStatCard)
  /\ processedData \in OfVersion(BarGraph_processedData(data, granularity), dateFns)
  /\ gridData = HeatmapChart_gridData(data, granularity)

Init == dateFns = "unknown" /\ actions = Unlimited /\ Mount(SmallData)

InitBulk == dateFns = "unknown" /\ actions = Unlimited /\ Mount(BulkData)

InitApp == dateFns = "unknown" /\ actions = Unlimited /\ Mount(AppData)

InitOrder == dateFns = "unknown" /\ actions = Unlimited /\ Mount(ShuffledData)

InitTimed == dateFns = "unknown" /\ actions = Unlimited /\ Mount(TimedData)

\* The arrays of ShuffledData under each version of date-fns.
\* A session of at most MaxActions user actions on the events of SessionData.
InitUI == dateFns = "unknown" /\ actions = 0 /\ Mount(SessionData)

InitRemount == dateFns \in DateFnsVersions /\ actions = Unlimited /\ Mount(ShuffledData)

\* onClick={() => setGranularity(option)} of the toolbar and tab buttons
SetGranularityToolbar ==
  \E option \in timeGranularityOptions :
    Update(selectedActivityTypes, selectedStatuses, selectedStatCard, option)

\* onClick={() => setGranularity(gran)} of the customize popover
SetGranularityCustomize ==
  \E gran \in customizeGranularities :
    Update(selectedActivityTypes, selectedStatuses, selectedStatCard, gran)

\* The Reset button of the customize popover: setShowGradient(true),
\* setShowAccessibilityPatterns(false), setGranularity('weekly'),
\* setTimeRange('last30days')
ResetCustomize ==
  /\ Recompute(selectedActivityTypes, selectedStatuses, selectedStatCard, "weekly")
  /\ showGradient' = TRUE
  /\ showAccessibilityPatterns' = FALSE
  /\ timeRange' = "last30days"
  /\ UNCHANGED <<searchTerm, showTrends>>

\* onChange={() => handleActivityTypeFilter(type)}
handleActivityTypeFilter ==
  \E activityType \in {App_activityTypes(dummyData)[i] : i \in 1..Len(App_activityTypes(dummyData))} :
    Update(Toggle(selectedActivityTypes, activityType), selectedStatuses, selectedStatCard, granularity)

\* The Select All checkbox: [...activityTypes] when checked, [] when not.
SelectAllActivityTypes ==
  \E checked \in BOOLEAN :
    Update(IF checked THEN App_activityTypes(dummyData) ELSE <<>>,
           selectedStatuses, selectedStatCard, granularity)

\* onChange={() => handleStatusFilter(status)}
handleStatusFilter ==
  \E status \in Statuses :
    Update(selectedActivityTypes, Toggle(selectedStatuses, status), selectedStatCard, granularity)

\* The chips: one per selected activity type, one per selected status, and
\* one for the stat card if (selectedStatCard).
getActiveFilters(types, statuses, card) ==
  [i \in 1..Len(types) |-> [type |-> "activityType", value |-> types[i]]]
  \o [i \in 1..Len(statuses) |-> [type |-> "status", value |-> statuses[i]]]
  \o (IF card # "null" THEN <<[type |-> "statCard", value |-> card]>> ELSE <<>>)

\* setSelectedStatCard(prev => prev === statType ? null : statType)
handleStatCardClick ==
  \E statType \in StatCards :
    Update(selectedActivityTypes, selectedStatuses,
           IF selectedStatCard = statType THEN "null" ELSE statType, granularity)

\* The x of a filter chip; the chips are those of getActiveFilters().
removeFilterChip ==
  \/ \E i \in 1..Len(selectedActivityTypes) :
       Update(Without(selectedActivityTypes, selectedActivityTypes[i]),
              selectedStatuses, selectedStatCard, granularity)
  \/ \E i \in 1..Len(selectedStatuses) :
       Update(selectedActivityTypes, Without(selectedStatuses, selectedStatuses[i]),
              selectedStatCard, granularity)
  \/ /\ selectedStatCard # "null"
     /\ Update(selectedActivityTypes, selectedStatuses, "null", granularity)

\* Faulty variant: the granularity is reset to 'weekly' as well.
clearAllFilters_resetsGranularity ==
  /\ Recompute(<<>>, <<>>, "null", "weekly")
  /\ searchTerm' = ""
  /\ UNCHANGED options

\* setSelectedActivityTypes([]), setSelectedStatuses([]),
\* setSelectedStatCard(null), setSearchTerm('')
clearAllFilters ==
  /\ Recompute(<<>>, <<>>, "null", granularity)
  /\ searchTerm' = ""
  /\ UNCHANGED options

\* onClick={() => setViewMode('heatmap')} and setViewMode('bargraph'): the
\* overview shows one chart; when there are events and the mode changes, the
\* chart of the new mode is mounted and runs its memo from scratch.
setViewMode ==
  \E mode \in {"heatmap", "bargraph"} :
    /\ viewMode' = mode
    /\ processedData' \in IF mode = "bargraph" /\ viewMode # mode /\ Len(data) > 0
                          THEN OfVersion(BarGraph_processedData(data, granularity), dateFns)
                          ELSE {processedData}
    /\ gridData' = IF mode = "heatmap" /\ viewMode # mode /\ Len(data) > 0
                   THEN HeatmapChart_gridData(data, granularity)
                   ELSE gridData
    /\ UNCHANGED <<dummyData, selectedActivityTypes, selectedStatuses, selectedStatCard,
                   granularity, data, dateFns, activeTab, popovers, searchTerm, options,
                   modal>>
    /\ UserAction

\* The state that the charts and the filters make up.
dashboard == <<dummyData, selectedActivityTypes, selectedStatuses, selectedStatCard,
               granularity, data, processedData, gridData, dateFns, viewMode>>

\* onClick={() => setActiveTab(tab.id)}
setActiveTab ==
  /\ \E tab \in tabs : activeTab' = tab
  /\ UserAction
  /\ UNCHANGED <<dashboard, popovers, searchTerm, options, modal>>

\* The toolbar's filter button: setShowFilters(!showFilters); setShowCustomize(false)
ToggleFilters ==
  /\ showFilters' = ~showFilters
  /\ showCustomize' = FALSE
  /\ UserAction
  /\ UNCHANGED <<dashboard, activeTab, searchTerm, options, modal>>

\* The toolbar's chart settings button: setShowCustomize(!showCustomize); setShowFilters(false)
ToggleCustomize ==
  /\ showCustomize' = ~showCustomize
  /\ showFilters' = FALSE
  /\ UserAction
  /\ UNCHANGED <<dashboard, activeTab, searchTerm, options, modal>>

\* The mobile filter menu button: setShowFilters(!showFilters)
MobileFilterMenu ==
  /\ showFilters' = ~showFilters
  /\ UserAction
  /\ UNCHANGED <<dashboard, activeTab, showCustomize, searchTerm, options, modal>>

\* {showCustomize && ...}: the overlay, the close button and Apply & Close
\* of the customize popover, each setShowCustomize(false)
CloseCustomize ==
  /\ showCustomize
  /\ showCustomize' = FALSE
  /\ UserAction
  /\ UNCHANGED <<dashboard, activeTab, showFilters, searchTerm, options, modal>>

\* {showFilters && ...}: the overlay, the close button and Apply & Close of
\* the filter popover, each setShowFilters(false)
CloseFilters ==
  /\ showFilters
  /\ showFilters' = FALSE
  /\ UserAction
  /\ UNCHANGED <<dashboard, activeTab, showCustomize, searchTerm, options, modal>>

\* The search box of the filter popover: onChange={(e) => setSearchTerm(e.target.value)}
setSearchTerm ==
  /\ showFilters
  /\ \E value \in SearchTerms : searchTerm' = value
  /\ UserAction
  /\ UNCHANGED <<dashboard, activeTab, popovers, options, modal>>

\* The Time Period select of the customize popover
setTimeRange ==
  /\ showCustomize
  /\ \E value \in timeRanges : timeRange' = value
  /\ UserAction
  /\ UNCHANGED <<dashboard, activeTab, popovers, searchTerm, showGradient,
                 showAccessibilityPatterns, showTrends, modal>>

\* The Gradient Intensity checkbox: setShowGradient(e.target.checked)
setShowGradient ==
  /\ showCustomize
  /\ \E checked \in BOOLEAN : showGradient' = checked
  /\ UserAction
  /\ UNCHANGED <<dashboard, activeTab, popovers, searchTerm, timeRange,
                 showAccessibilityPatterns, showTrends, modal>>

\* The Accessibility Patterns checkbox
setShowAccessibilityPatterns ==
  /\ showCustomize
  /\ \E checked \in BOOLEAN : showAccessibilityPatterns' = checked
  /\ UserAction
  /\ UNCHANGED <<dashboard, activeTab, popovers, searchTerm, timeRange,
                 showGradient, showTrends, modal>>

\* {viewMode === 'bargraph' && ...}: the Show Trend Indicators checkbox
setShowTrends ==
  /\ showCustomize
  /\ viewMode = "bargraph"
  /\ \E checked \in BOOLEAN : showTrends' = checked
  /\ UserAction
  /\ UNCHANGED <<dashboard, activeTab, popovers, searchTerm, timeRange,
                 showGradient, showAccessibilityPatterns, modal>>

\* Faulty variant: every cell of the grid is drawn and can be clicked.
Rendered_everyCell(cell) == TRUE

\* if (!cell.status) return null: only a cell with a status is drawn.
Rendered(cell) == cell.status # "null"

\* Faulty variant: every call is forwarded.
useThrottle_noDelay(time, last) == TRUE

\* if (Date.now() - lastRun.current >= delay)
useThrottle(time, last) == time - last >= Delay

\* A click on a cell of the heatmap: requestAnimationFrame(() => onCellClick(cell)).
\* The heatmap is on screen when it is the view mode and there are events.
cellClick ==
  /\ viewMode = "heatmap"
  /\ Len(data) > 0
  /\ Len(frames) < MaxFrames
  /\ \E n \in 1..Len(gridData.rows) :
       /\ Rendered(gridData.rows[n])
       /\ frames' = Append(frames, [callback |-> "onCellClick",
                                    cell |-> gridData.rows[n],
                                    madeAt |-> now])
  /\ UserAction
  /\ UNCHANGED <<dashboard, activeTab, popovers, searchTerm, options,
                 selectedCell, now, lastRun, forwarded, opened>>

\* The browser runs the oldest pending animation-frame callback: either
\* optimizedCellClick(cell), which calls handleCellClick(cell) if the throttle
\* lets it through, and that requests the second frame; or the callback of
\* that second frame, setSelectedCell(cell).
animationFrame ==
  /\ frames # <<>>
  /\ LET frame == Head(frames)
     IN IF frame.callback = "onCellClick"
        THEN IF useThrottle(now, lastRun)
             THEN /\ frames' = Append(Tail(frames), [callback |-> "setSelectedCell",
                                                     cell |-> frame.cell,
                                                     madeAt |-> frame.madeAt])
                  /\ lastRun' = now
                  /\ forwarded' = Append(forwarded, [madeAt |-> frame.madeAt, at |-> now])
                  /\ UNCHANGED <<selectedCell, opened>>
             ELSE /\ frames' = Tail(frames)
                  /\ UNCHANGED <<selectedCell, lastRun, forwarded, opened>>
        ELSE /\ frames' = Tail(frames)
             /\ selectedCell' = <<frame.cell>>
             /\ opened' = Append(opened, frame.madeAt)
             /\ UNCHANGED <<lastRun, forwarded>>
  /\ UNCHANGED <<dashboard, activeTab, popovers, searchTerm, options, now, actions>>

\* Time passes.
Tick ==
  /\ \E step \in Steps : now + step <= MaxNow /\ now' = now + step
  /\ UNCHANGED <<dashboard, activeTab, popovers, searchTerm, options,
                 selectedCell, frames, lastRun, forwarded, opened, actions>>

\* {selectedCell && ...}: the overlay and the close button of the details
\* modal, closeDetailsModal: setSelectedCell(null)
closeDetailsModal ==
  /\ selectedCell # <<>>
  /\ selectedCell' = <<>>
  /\ UserAction
  /\ UNCHANGED <<dashboard, activeTab, popovers, searchTerm, options,
                 frames, now, lastRun, forwarded, opened>>

Next == SetGranularityToolbar \/ SetGranularityCustomize

NextApp ==
  \/ SetGranularityToolbar
  \/ SetGranularityCustomize
  \/ ResetCustomize
  \/ handleActivityTypeFilter
  \/ SelectAllActivityTypes
  \/ handleStatusFilter
  \/ handleStatCardClick
  \/ removeFilterChip
  \/ clearAllFilters

NextRemount == SetGranularityToolbar \/ SetGranularityCustomize \/ setViewMode

NextUI ==
  \/ SetGranularityToolbar
  \/ SetGranularityCustomize
  \/ ResetCustomize
  \/ handleActivityTypeFilter
  \/ SelectAllActivityTypes
  \/ handleStatusFilter
  \/ handleStatCardClick
  \/ removeFilterChip
  \/ clearAllFilters
  \/ setViewMode
  \/ setActiveTab
  \/ ToggleFilters
  \/ ToggleCustomize
  \/ MobileFilterMenu
  \/ CloseCustomize
  \/ CloseFilters
  \/ setSearchTerm
  \/ setTimeRange
  \/ setShowGradient
  \/ setShowAccessibilityPatterns
  \/ setShowTrends
  \/ cellClick
  \/ animationFrame
  \/ Tick
  \/ closeDetailsModal

\* The charts alone, on every small array of events.
Spec == Init /\ [][Next]_vars

\* The application with its filters, on the events of AppData.
SpecApp == InitApp /\ [][NextApp]_vars

\* The charts alone, on arrays given in every order.
SpecOrder == InitOrder /\ [][Next]_vars

\* The charts alone, on events dated with a time of day.
SpecTimed == InitTimed /\ [][Next]_vars

\* The whole application: sessions of at most MaxActions user actions, with
\* the animation frames and the clock in between.
SpecUI == InitUI /\ [][NextUI]_vars

\* The charts mounted again and again by the view mode buttons, under a
\* fixed version of date-fns.
SpecRemount == InitRemount /\ [][NextRemount]_vars

\* The same charts on the bulk arrays.
SpecBulk == InitBulk /\ [][Next]_vars

----------------------------------------------------------------------------
(* Properties of the aggregation.                                          *)

RECURSIVE SumTotals(_)
SumTotals(rows) == IF rows = <<>> THEN 0 ELSE Head(rows).total + SumTotals(Tail(rows))

RECURSIVE SumCounts(_)
SumCounts(cells) == IF cells = <<>> THEN 0 ELSE Head(cells).count + SumCounts(Tail(cells))

NumWellFormed(evs) == Cardinality({i \in 1..Len(evs) : IsWellFormed(evs[i])})

Sign(n) == IF n > 0 THEN "up" ELSE IF n < 0 THEN "down" ELSE "stable"

\* C1: total conservation. For every granularity and every array of
\* well-formed events, the totals of the bar chart's buckets add up to the
\* number of events. (A render that throws produces no bucket; among arrays
\* of well-formed events only the empty one can throw.)
C1_TotalConservation ==
  WellFormedData(data) => SumTotals(processedData.rows) = Len(data)

\* Three events, weekly buckets with an empty week between two observed ones.
C1_Witness ==
  /\ granularity = "weekly"
  /\ WellFormedData(data)
  /\ Len(data) = 3
  /\ Len(processedData.rows) = 3
  /\ processedData.rows[1].total = 1
  /\ processedData.rows[2].total = 0
  /\ processedData.rows[3].total = 2

\* C2: status partition. Every bucket, under every granularity, carries
\* the three status counters and its total is their sum.
C2_StatusPartition ==
  \A k \in 1..Len(processedData.rows) :
    LET b == processedData.rows[k]
    IN /\ Statuses \subseteq DOMAIN b
       /\ b.total = b.success + b.warning + b.fail

\* A bucket holding one event of each status.
C2_Witness ==
  \E k \in 1..Len(processedData.rows) :
    LET b == processedData.rows[k]
    IN b.success = 1 /\ b.warning = 1 /\ b.fail = 1 /\ b.total = 3

\* C3: daily bucket contiguity. Under daily granularity there is one bucket
\* for every calendar day from the earliest to the latest event date.
C3_DailyContiguity ==
  (granularity = "daily" /\ WellFormedData(data) /\ Len(data) > 0 /\ ~processedData.threw) =>
    LET days == {DayNumber(data[i].date) : i \in 1..Len(data)}
        first == CHOOSE n \in days : \A z \in days : n <= z
        last == CHOOSE n \in days : \A z \in days : z <= n
        rows == processedData.rows
    IN /\ Len(rows) = last - first + 1
       /\ \A k \in 1..Len(rows) : DayNumber(rows[k].period) = first + k - 1

\* C4: trend formula. For every bucket after the first, trendPercent is
\* round((total[i] - total[i-1]) / max(total[i-1], 1) * 100), so total[i] * 100
\* after an empty bucket.
C4_TrendFormula ==
  WellFormedData(data) =>
    \A k \in 2..Len(processedData.rows) :
      LET cur == processedData.rows[k].total
          prev == processedData.rows[k - 1].total
      IN processedData.rows[k].trend = MathRound(100 * (cur - prev), MaxWith({prev}, 1))

\* C5: the trend direction is the sign of the reported (rounded) percentage.
C5_DirectionMatchesPercent ==
  \A k \in 1..Len(processedData.rows) :
    processedData.rows[k].trendDirection = Sign(processedData.rows[k].trend)

\* C6: the first bucket of a non-empty bucket sequence has trendPercent 0
\* and direction 'stable', whatever its total.
C6_FirstBucketStable ==
  Len(processedData.rows) > 0 =>
    /\ processedData.rows[1].trend = 0
    /\ processedData.rows[1].trendDirection = "stable"

\* A first bucket with two events or more, followed by a bucket whose trend
\* is not 0.
C6_Witness ==
  /\ Len(processedData.rows) >= 2
  /\ processedData.rows[1].total >= 2
  /\ processedData.rows[2].trend # 0
  /\ processedData.rows[1].trend = 0

\* C7: on an empty event array both charts return an empty sequence without
\* raising an error, under every granularity, and the statistics are all 0.
C7_EmptyInput ==
  data = <<>> =>
    /\ ~processedData.threw
    /\ processedData.rows = <<>>
    /\ ~gridData.threw
    /\ gridData.rows = <<>>
    /\ \A f \in DOMAIN statistics(data) : statistics(data)[f] = 0

\* C8: an event without a date or without an activity type is skipped: both
\* charts complete, it is counted in no bucket and no cell, and the
\* well-formed events are all counted.
C8_MalformedSkipped ==
  ~WellFormedData(data) =>
    /\ ~processedData.threw
    /\ ~gridData.threw
    /\ SumTotals(processedData.rows) = NumWellFormed(data)
    /\ SumCounts(gridData.rows) = NumWellFormed(data)

\* C9: intensity bounds. Every cell has 0 <= intensity <= 1, and intensity
\* is 0 exactly when the cell's count is 0.
C9_IntensityBounds ==
  \A n \in 1..Len(gridData.rows) :
    LET c == gridData.rows[n]
    IN /\ c.intensity.den >= 1
       /\ 0 <= c.intensity.num
       /\ c.intensity.num <= c.intensity.den
       /\ (c.intensity.num = 0 <=> c.count = 0)

\* A cell at half intensity, a cell at full intensity and an empty cell.
C9_Witness ==
  /\ \E n \in 1..Len(gridData.rows) :
       LET c == gridData.rows[n] IN c.count = 1 /\ c.intensity.den = 2
  /\ \E n \in 1..Len(gridData.rows) :
       LET c == gridData.rows[n] IN c.count = 2 /\ c.intensity.num = c.intensity.den
  /\ \E n \in 1..Len(gridData.rows) : gridData.rows[n].count = 0

\* C10: dominant status. A cell with events is 'fail' if any of its events
\* failed, otherwise 'warning' if any has a warning, otherwise 'success'.
C10_DominantStatusPriority ==
  \A n \in 1..Len(gridData.rows) :
    LET c == gridData.rows[n]
        Has(status) == \E i \in 1..Len(c.events) : c.events[i].status = status
    IN c.count > 0 =>
         /\ Has("fail") => c.status = "fail"
         /\ (~Has("fail") /\ Has("warning")) => c.status = "warning"
         /\ (~Has("fail") /\ ~Has("warning")) => c.status = "success"

\* A cell of two successes and one failure, reported as 'fail'.
C10_Witness ==
  \E n \in 1..Len(gridData.rows) :
    LET c == gridData.rows[n]
    IN /\ c.count = 3
       /\ NumWithStatus(c.events, "success") = 2
       /\ NumWithStatus(c.events, "fail") = 1
       /\ c.status = "fail"

\* C11: under every granularity a cell's dominant status is null exactly when
\* its count is 0, and its count is the length of its events sequence.
C11_NullStatusIffEmpty ==
  \A n \in 1..Len(gridData.rows) :
    LET c == gridData.rows[n]
    IN /\ (c.status = "null" <=> c.count = 0)
       /\ c.count = Len(c.events)

\* A monthly grid with an empty cell of null status next to a cell of two
\* events with a status.
C11_Witness ==
  /\ granularity = "monthly"
  /\ \E n \in 1..Len(gridData.rows) :
       LET c == gridData.rows[n] IN c.count = 0 /\ c.status = "null" /\ c.events = <<>>
  /\ \E n \in 1..Len(gridData.rows) :
       LET c == gridData.rows[n] IN c.count = 2 /\ Len(c.events) = 2 /\ c.status \in Statuses

\* The distinct activity types of an event array.
TypesOf(evs) == {evs[i].activityType : i \in 1..Len(evs)} \ {NoType}

\* The period keys of an event array under a granularity: its dates, its
\* months, or the Sundays of the weeks from its earliest to its latest date.
PeriodKeys(evs, g) ==
  LET dated == {evs[i].date : i \in 1..Len(evs)} \ {NoDate}
      days == {DayNumber(s) : s \in dated}
  IN IF g = "daily" THEN dated
     ELSE IF g = "monthly" THEN {[y |-> s.y, m |-> s.m] : s \in dated}
     ELSE {FormatDay(2 * w) : w \in {w \in 0..366 : /\ w % 7 = 0
                                                 /\ \E early \in days : early - (early % 7) <= w
                                                 /\ \E late \in days : w <= late}}

\* C12: cell grid completeness. The grid has exactly one cell for every
\* pair of an activity type of the input and a period key of the selected
\* granularity, pairs without events included, so |types| * |keys| cells.
C12_GridCompleteness ==
  LET rows == gridData.rows
      types == TypesOf(data)
      keys == PeriodKeys(data, granularity)
  IN /\ \A a \in types : \A p \in keys :
          Cardinality({n \in 1..Len(rows) : rows[n].activityType = a /\ rows[n].period = p}) = 1
     /\ Len(rows) = Cardinality(types) * Cardinality(keys)

\* One activity type with 4 events in one week and 8 in a later week.
WeeklyCounts4And8 ==
  Rep([date |-> DateStr(2024, 1, 27, 0), activityType |-> "Login", status |-> "success"], 4)
    \o Rep([date |-> DateStr(2024, 2, 8, 0), activityType |-> "Login", status |-> "success"], 8)

\* The weekly grid of these events.
WeeklyCells4And8 == HeatmapChart_gridData(WeeklyCounts4And8, "weekly").rows

\* C13: weekly intensity is normalised globally. Under weekly granularity
\* the intensity of a non-empty cell is count / M, M being the largest count
\* of any (activity type, week) cell, at least 1; only cells with the global
\* maximum reach 1, and weekly counts 4 and 8 of one type give 0.5 and 1.0.
C13_WeeklyGlobalIntensity ==
  /\ (granularity \notin {"daily", "monthly"}) =>
       LET rows == gridData.rows
           M == MaxWith({rows[n].count : n \in 1..Len(rows)}, 1)
       IN \A n \in 1..Len(rows) :
            LET c == rows[n]
            IN c.count > 0 =>
                 /\ c.intensity.num * M = c.count * c.intensity.den
                 /\ (c.intensity.num = c.intensity.den <=> c.count = M)
  /\ LET cells == WeeklyCells4And8
     IN /\ Len(cells) = 3
        /\ cells[1].count = 4 /\ 2 * cells[1].intensity.num = cells[1].intensity.den
        /\ cells[2].count = 0 /\ cells[2].intensity.num = 0
        /\ cells[3].count = 8 /\ cells[3].intensity.num = cells[3].intensity.den

\* A weekly grid where one activity type peaks at one event, at intensity
\* 0.5, because a cell of the other type holds two.
C13_Witness ==
  /\ granularity = "weekly"
  /\ \E n \in 1..Len(gridData.rows) :
       LET c == gridData.rows[n] IN c.count = 2 /\ c.intensity.num = c.intensity.den
  /\ \E a \in TypesOf(data) :
       /\ \E n \in 1..Len(gridData.rows) :
            LET c == gridData.rows[n]
            IN c.activityType = a /\ c.count = 1 /\ 2 * c.intensity.num = c.intensity.den
       /\ \A n \in 1..Len(gridData.rows) :
            gridData.rows[n].activityType = a => gridData.rows[n].count <= 1

\* C14: daily and monthly intensity is normalised per activity type. The
\* intensity of a non-empty cell is count / M_t, M_t being the largest count
\* of any cell of the same activity type, at least 1; hence every activity
\* type with an event that has a date has a cell of intensity exactly 1.
C14_PerTypeIntensity ==
  (granularity \in {"daily", "monthly"}) =>
    LET rows == gridData.rows
        Mt(a) == MaxWith({rows[n].count : n \in {n \in 1..Len(rows) : rows[n].activityType = a}}, 1)
    IN /\ \A n \in 1..Len(rows) :
            LET c == rows[n]
            IN c.count > 0 => c.intensity.num * Mt(c.activityType) = c.count * c.intensity.den
       /\ \A a \in TypesOf(data) :
            (\E i \in 1..Len(data) : data[i].activityType = a /\ data[i].date # NoDate) =>
              \E n \in 1..Len(rows) :
                LET c == rows[n]
                IN c.activityType = a /\ c.count > 0 /\ c.intensity.num = c.intensity.den

\* C15: consistent totals. For every array of well-formed events and under
\* every granularity, the counts of the heatmap cells and the totals of the
\* bar chart buckets add up to the same value, the number of events; that
\* number does not depend on the granularity, so neither does the grand
\* total. (A render that throws produces no bucket; among arrays of
\* well-formed events only the empty one can throw.)
C15_ConsistentTotals ==
  WellFormedData(data) =>
    /\ SumCounts(gridData.rows) = SumTotals(processedData.rows)
    /\ SumTotals(processedData.rows) = Len(data)

\* Three events of two activity types, a Saturday among their dates, shown
\* as a weekly grid with an empty cell and a non-empty one.
C15_Witness ==
  /\ granularity = "weekly"
  /\ WellFormedData(data)
  /\ Len(data) = 3
  /\ Cardinality(TypesOf(data)) = 2
  /\ \E i \in 1..Len(data) : data[i].date = DateStr(2024, 1, 27, 0)
  /\ SumCounts(gridData.rows) = 3
  /\ SumTotals(processedData.rows) = 3
  /\ \E n \in 1..Len(gridData.rows) : gridData.rows[n].count = 0

\* C16: filters are a pre-filter on events. An event is in filteredData if
\* and only if (no activity type is selected or its type is selected) and (no
\* status is selected or its status is selected) and (no stat card is
\* selected, or the card is 'total', or its status is the card's, 'failed'
\* standing for 'fail'); the charts are computed from these events, so the
\* bucket totals and the cell counts add up to their number.
C16_FiltersPreFilter ==
  LET Selected(arr) == {arr[i] : i \in 1..Len(arr)}
      cardStatus == IF selectedStatCard = "failed" THEN "fail" ELSE selectedStatCard
      Passes(e) ==
        /\ (Selected(selectedActivityTypes) = {} \/ e.activityType \in Selected(selectedActivityTypes))
        /\ (Selected(selectedStatuses) = {} \/ e.status \in Selected(selectedStatuses))
        /\ (selectedStatCard = "null" \/ selectedStatCard = "total" \/ e.status = cardStatus)
  IN /\ data = SelectSeq(dummyData, Passes)
     /\ SumTotals(processedData.rows) = Len(data)
     /\ SumCounts(gridData.rows) = Len(data)

\* The 'failed' card together with an activity type filter lets one failed
\* event of three through, and the monthly charts count that one event.
C16_Witness ==
  /\ selectedStatCard = "failed"
  /\ Len(selectedActivityTypes) = 1
  /\ granularity = "monthly"
  /\ Len(dummyData) = 3
  /\ Len(data) = 1
  /\ data[1].status = "fail"
  /\ data[1].activityType = selectedActivityTypes[1]
  /\ SumTotals(processedData.rows) = 1

\* C17: no stale derived data. After any sequence of changes of the
\* granularity, the selected activity types, the selected statuses and the
\* stat card, filteredData is the filter of the events under the current
\* selection, and the buckets and cells the charts hold are the aggregation
\* of filteredData under the current granularity.
C17_NoStaleDerivedData ==
  /\ data = App_filteredData(dummyData, selectedActivityTypes, selectedStatuses, selectedStatCard)
  /\ processedData \in BarGraph_processedData(data, granularity)
  /\ gridData = HeatmapChart_gridData(data, granularity)

\* Granularity, activity types, statuses and stat card have all been changed,
\* and the daily charts show the two events that are left.
C17_Witness ==
  /\ granularity = "daily"
  /\ Len(selectedActivityTypes) = 1
  /\ Len(selectedStatuses) = 2
  /\ selectedStatCard = "total"
  /\ Len(data) = 2
  /\ Len(dummyData) = 3
  /\ Len(processedData.rows) = 2
  /\ Len(gridData.rows) = 2

\* The arrays holding the events of evs in another order.
Orderings(evs) ==
  {[i \in 1..Len(evs) |-> evs[f[i]]] :
     f \in {f \in [1..Len(evs) -> 1..Len(evs)] : \A i, j \in 1..Len(evs) : f[i] = f[j] => i = j}}

\* C18: order independence. Under every granularity the bucket sequence
\* (keys, totals, status counts, trend, direction) computed from any
\* permutation of the events is the one computed from the events in their
\* order of arrival.
C18_OrderIndependence ==
  LET asGiven == BarGraph_processedData(data, granularity)
  IN \A permuted \in Orderings(data) :
       /\ BarGraph_processedData(permuted, granularity) = asGiven
       /\ processedData \in BarGraph_processedData(permuted, granularity)

\* Three events arriving latest first on three days: six different arrays,
\* and the daily buckets on screen are in date order.
C18_Witness ==
  /\ granularity = "daily"
  /\ Len(data) = 3
  /\ Cardinality(Orderings(data)) = 6
  /\ DateStrKey(data[1].date) > DateStrKey(data[2].date)
  /\ DateStrKey(data[2].date) > DateStrKey(data[3].date)
  /\ Len(processedData.rows) = 3
  /\ processedData.rows[1].period = data[3].date
  /\ processedData.rows[3].period = data[1].date

\* The place of a period key in time: a month key or a date key.
Chronological(period) ==
  IF "d" \in DOMAIN period THEN DateStrKey(period) ELSE MonthKey(period)

\* C19: chronological, duplicate-free bucket order. Under every granularity
\* the keys of the bar chart's buckets, and the period keys of the heatmap's
\* columns (the cells of each activity type, left to right), are strictly
\* increasing in time.
C19_ChronologicalKeys ==
  /\ \A k \in 1..(Len(processedData.rows) - 1) :
       Chronological(processedData.rows[k].period) < Chronological(processedData.rows[k + 1].period)
  /\ \A m, n \in 1..Len(gridData.rows) :
       (m < n /\ gridData.rows[m].activityType = gridData.rows[n].activityType) =>
         Chronological(gridData.rows[m].period) < Chronological(gridData.rows[n].period)

\* Three dates and two activity types: three daily buckets, and two rows of
\* three cells with the same keys.
C19_Witness ==
  /\ granularity = "daily"
  /\ Len(processedData.rows) = 3
  /\ Len(gridData.rows) = 6
  /\ Chronological(gridData.rows[1].period) < Chronological(gridData.rows[3].period)
  /\ gridData.rows[4].period = gridData.rows[1].period

\* The Sunday (as a day number) of the week of a date string.
WeekOf(s) == DayNumber(s) - (DayNumber(s) % 7)

\* C20: weekly bucket sequence. Under weekly granularity the bucket keys are
\* the week starts from the week of the earliest event date to the week of
\* the latest, one week apart, weeks without events included with total 0,
\* and each event is counted in the bucket of the week that contains its
\* date; the heatmap has the same weeks as columns, with the events of each
\* activity type counted in the cell of their week.
C20_WeeklyBucketSequence ==
  (granularity = "weekly") =>
    LET dated == {i \in 1..Len(data) : data[i].date # NoDate}
        first == CHOOSE w \in {WeekOf(data[i].date) : i \in dated} :
                   \A i \in dated : w <= WeekOf(data[i].date)
        last == CHOOSE w \in {WeekOf(data[i].date) : i \in dated} :
                  \A i \in dated : WeekOf(data[i].date) <= w
        numWeeks == IF dated = {} THEN 0 ELSE (last - first) \div 7 + 1
        rows == processedData.rows
        cells == gridData.rows
    IN /\ Len(rows) = numWeeks
       /\ \A k \in 1..Len(rows) :
            /\ DayNumber(rows[k].period) = first + 7 * (k - 1)
            /\ rows[k].total = Cardinality({i \in dated : WeekOf(data[i].date) = first + 7 * (k - 1)})
       /\ \A a \in TypesOf(data) : \A k \in 1..numWeeks :
            \E n \in 1..Len(cells) :
              /\ cells[n].activityType = a
              /\ DayNumber(cells[n].period) = first + 7 * (k - 1)
              /\ cells[n].count = Cardinality({i \in dated : /\ data[i].activityType = a
                                                             /\ WeekOf(data[i].date) = first + 7 * (k - 1)})

\* The calendar day of a date string, whatever its time of day.
CalendarDay(s) == [y |-> s.y, m |-> s.m, d |-> s.d]

\* C21: the daily key is the calendar date. Under daily granularity two
\* events of the same calendar day, at whatever time of day, are counted in
\* the same bucket and (for one activity type) the same cell: no two buckets
\* and no two cells of an activity type share a calendar day.
C21_DailyKeyIsCalendarDate ==
  (granularity = "daily") =>
    /\ \A k, l \in 1..Len(processedData.rows) :
         CalendarDay(processedData.rows[k].period) = CalendarDay(processedData.rows[l].period)
           => k = l
    /\ \A m, n \in 1..Len(gridData.rows) :
         (/\ gridData.rows[m].activityType = gridData.rows[n].activityType
          /\ CalendarDay(gridData.rows[m].period) = CalendarDay(gridData.rows[n].period))
           => m = n

C23_MonthlyObservedMonthsOnly ==
  (granularity = "monthly") =>
    LET rows == processedData.rows
        cells == gridData.rows
        observed == PeriodKeys(data, "monthly")
    IN /\ {rows[k].period : k \in 1..Len(rows)} = observed
       /\ Len(rows) = Cardinality(observed)
       /\ \A k \in 1..Len(rows) : rows[k].total >= 1
       /\ \A a \in TypesOf(data) :
            {cells[n].period : n \in {n \in 1..Len(cells) : cells[n].activityType = a}} = observed

\* C24: scale domains cover the data. For every non-empty bucket sequence
\* the count axis has the domain [0, max(largest total, 1)], every total lies
\* in it and a larger total is drawn at a smaller or equal y position; the
\* trend axis has the symmetric domain [-m, m], m >= 0 the largest absolute
\* trend, and every trend lies in it.
C24_ScaleDomainsCoverData ==
  LET rows == processedData.rows
      count == BarGraph_yScaleDomain(rows)
      trend == BarGraph_trendScaleDomain(rows)
      y(k) == BarGraph_yScale(rows, rows[k].total)
  IN (Len(rows) > 0) =>
       /\ count[1] = 0
       /\ count[2] >= 1
       /\ count[2] = 1 \/ \E k \in 1..Len(rows) : rows[k].total = count[2]
       /\ \A k \in 1..Len(rows) : count[1] <= rows[k].total /\ rows[k].total <= count[2]
       /\ \A k, l \in 1..Len(rows) :
            (rows[k].total > rows[l].total) => (y(k).num * y(l).den <= y(l).num * y(k).den)
       /\ \A k \in 1..Len(rows) : 0 * y(k).den <= y(k).num /\ y(k).num <= BarGraph_yMax * y(k).den
       /\ trend[1] = -trend[2]
       /\ trend[2] >= 0
       /\ \E k \in 1..Len(rows) : Abs(rows[k].trend) = trend[2]
       /\ \A k \in 1..Len(rows) : trend[1] <= rows[k].trend /\ rows[k].trend <= trend[2]

\* Two buckets, the later one with the smaller total and a falling trend.
C24_Witness ==
  /\ Len(processedData.rows) = 2
  /\ processedData.rows[1].total > processedData.rows[2].total
  /\ processedData.rows[2].trend < 0
  /\ BarGraph_trendScaleDomain(processedData.rows)[2] = -processedData.rows[2].trend

\* C25: any granularity other than 'daily' and 'monthly' is aggregated as
\* weekly. Under every value the controls can set besides those two ('hour',
\* 'day', 'week', 'month', 'year', 'hourly', 'weekly') both charts show
\* exactly the weekly buckets and the weekly cells of the same events.
C25_OtherGranularityIsWeekly ==
  (granularity \in (timeGranularityOptions \cup customizeGranularities) \ {"daily", "monthly"}) =>
    /\ {processedData} = OfVersion(BarGraph_processedData(data, "weekly"), dateFns)
    /\ gridData = HeatmapChart_gridData(data, "weekly")

\* 'day' is selected and the bar chart shows a week without events between
\* two weeks with events, which no daily bucket sequence of the code has.
C25_Witness ==
  /\ granularity = "day"
  /\ \E k \in 2..(Len(processedData.rows) - 1) : processedData.rows[k].total = 0
  /\ Len(gridData.rows) >= 3

\* C26: popover mutual exclusion. After any sequence of user actions (the
\* toolbar's filter and chart settings buttons, the mobile filter menu
\* button, overlay clicks, close buttons, Apply & Close) the filter popover
\* and the customize popover are never both open.
C26_PopoverMutualExclusion == ~(showFilters /\ showCustomize)

\* C27: details-modal safety. In every reachable state selectedCell is null
\* or a cell with count > 0 and a status, so the modal can read
\* selectedCell.status; this holds however cell clicks, the two deferred
\* animation-frame callbacks, modal closes and filter or granularity changes
\* interleave.
C27_DetailsModalSafety ==
  \/ selectedCell = <<>>
  \/ /\ Len(selectedCell) = 1
     /\ selectedCell[1].count > 0
     /\ selectedCell[1].count = Len(selectedCell[1].events)
     /\ selectedCell[1].status \in Statuses

\* The modal shows a cell that the grid no longer has: a stat card was
\* selected after the click.
C27_Witness ==
  /\ selectedCell # <<>>
  /\ selectedStatCard # "null"
  /\ \A n \in 1..Len(gridData.rows) : gridData.rows[n] # selectedCell[1]

\* The clicks that are on their way to the details modal or have opened it.
SelectionsRequested ==
  Len(opened) + Cardinality({k \in 1..Len(frames) : frames[k].callback = "setSelectedCell"})

\* C28: throttled cell click. A click handed to the throttled handler is
\* forwarded to handleCellClick only if at least 50 ms have passed since the
\* last forwarded click, or since the hook was created; otherwise it is
\* dropped and never replayed. So the forwarded clicks are at least 50 ms
\* apart, and a click handed over within 50 ms of the mount never opens the
\* details modal.
C28_ThrottledCellClick ==
  /\ \A i \in 1..Len(forwarded) :
       /\ forwarded[i].at >= Delay
       /\ i > 1 => forwarded[i].at - forwarded[i - 1].at >= Delay
  /\ lastRun = IF forwarded = <<>> THEN 0 ELSE forwarded[Len(forwarded)].at
  /\ SelectionsRequested = Len(forwarded)
  /\ \A k \in 1..Len(opened) : \E i \in 1..Len(forwarded) : forwarded[i].madeAt = opened[k]

\* Two clicks were forwarded and the first of them has opened the modal.
C28_Witness ==
  /\ Len(forwarded) = 2
  /\ Len(opened) >= 1
  /\ selectedCell # <<>>

\* C28 as stated: besides the above, a click that the user made within 50 ms
\* of the mount never opens the details modal.
C28_ClickMadeEarlyNeverOpens ==
  /\ C28_ThrottledCellClick
  /\ \A k \in 1..Len(opened) : opened[k] >= Delay

\* C29: clearAllFilters resets exactly the filter state. From any reachable
\* state it empties the selected activity types and statuses, sets the
\* selected stat card to null and the search term to empty, after which
\* filteredData is the whole dataset; granularity, view mode, active tab,
\* time range, the gradient, pattern and trend options, the two popovers and
\* the selected cell stay as they are.
C29_ClearAllFiltersFrame ==
  [][clearAllFilters =>
       /\ selectedActivityTypes' = <<>>
       /\ selectedStatuses' = <<>>
       /\ selectedStatCard' = "null"
       /\ searchTerm' = ""
       /\ data' = dummyData
       /\ UNCHANGED <<granularity, viewMode, activeTab, timeRange, showGradient,
                      showAccessibilityPatterns, showTrends, showFilters, showCustomize,
                      selectedCell>>]_vars

\* clearAllFilters can act on a state with a stat card selected that narrows
\* the events, and with the details modal open.
C29_Witness ==
  /\ actions < MaxActions
  /\ selectedStatCard # "null"
  /\ data # dummyData
  /\ selectedCell # <<>>

\* The events of evs with the given status, in order.
WithStatus(evs, status) ==
  LET Test(e) == e.status = status
  IN SelectSeq(evs, Test)

\* What the stat card does to filteredData in a state: none or one card is
\* selected; 'total' is a chip and narrows nothing; 'success', 'warning' and
\* 'failed' keep the events of status success, warning and fail.
C30_CardNarrowing ==
  LET uncarded == App_filteredData(dummyData, selectedActivityTypes, selectedStatuses, "null")
      chips == getActiveFilters(selectedActivityTypes, selectedStatuses, selectedStatCard)
      cardChips == {k \in 1..Len(chips) : chips[k].type = "statCard"}
  IN /\ selectedStatCard \in StatCards \cup {"null"}
     /\ Cardinality(cardChips) = IF selectedStatCard = "null" THEN 0 ELSE 1
     /\ \A k \in cardChips : chips[k].value = selectedStatCard
     /\ selectedStatCard \in {"null", "total"} => data = uncarded
     /\ selectedStatCard = "success" => data = WithStatus(uncarded, "success")
     /\ selectedStatCard = "warning" => data = WithStatus(uncarded, "warning")
     /\ selectedStatCard = "failed" => data = WithStatus(uncarded, "fail")

\* C30: stat-card selection. At most one stat card is selected at any time;
\* a click on the selected card deselects it and a click on another card
\* replaces the selection; 'total' leaves filteredData as it is with no card
\* selected, although it is listed as an active filter; 'success', 'warning'
\* and 'failed' restrict filteredData to the events of status success,
\* warning and fail.
C30_StatCardSelection ==
  /\ []C30_CardNarrowing
  /\ [][handleStatCardClick =>
          /\ selectedStatCard' # selectedStatCard
          /\ selectedStatCard' = "null" => selectedStatCard # "null"
          /\ selectedStatCard' \in StatCards \cup {"null"}
          /\ UNCHANGED <<selectedActivityTypes, selectedStatuses>>]_vars

\* The 'total' card is selected together with a status filter: the events
\* of that status remain, as with no card.
C30_Witness ==
  /\ selectedStatCard = "total"
  /\ Len(selectedStatuses) > 0
  /\ Len(data) > 0
  /\ Len(data) < Len(dummyData)

====
